---- MODULE Spec2Model ----
(***************************************************************************)
(* Model of spam_rows.py: a script that opens ./sample.db, ensures the     *)
(* table RandomData and an index on its name column exist, inserts rows of *)
(* random values in one transaction, commits, closes and reports success.  *)
(*                                                                         *)
(* The database file outlives the process, so the model runs the script    *)
(* several times against the same file.  A run may end early: a statement  *)
(* may fail (unhandled exception) or the process may be interrupted.       *)
(***************************************************************************)
EXTENDS Integers, Sequences, FiniteSets, TLC

VARIABLES
    schema,        \* the schema dict, as the sequence of its (name, tag) items
    nrows,         \* the row count of the insert loop, range(nrows)
    rng,           \* state of the random module's generator
    pc,            \* the statement the script executes next
    conn,          \* the connection: "none", "open", "closed", "dropped"
    txn,           \* the connection's open transaction: rows not yet committed
    i,             \* rows the insert loop has started
    data,          \* the list `data` of the loop body
    placeholders,  \* the '?' marks of the last insert statement
    db,            \* the committed content of ./sample.db
    trace,         \* calls and prints of the current run, in order
    runs,          \* runs started so far
    completed,     \* runs that reached the end of the script
    pre            \* db as it was when the current run started

vars == <<schema, nrows, rng, pc, conn, txn, i, data, placeholders, db,
          trace, runs, completed, pre>>

-----------------------------------------------------------------------------
(* Bounds of the model. *)

\* the insert loop runs range(nrows) with nrows in 0..MaxRows
MaxRows == 2

\* the script is run at most MaxRuns times against the same file
MaxRuns == 2

-----------------------------------------------------------------------------
(* Constants of the script. *)

table_name == "RandomData"

index_name == "idx_RandomData_name"

\* random.randint(10, 100)
RandLo == 10

RandHi == 100

\* random.choices(..., k=5)
StrLen == 5

\* string.ascii_uppercase + string.digits
Alphabet ==
    << "A", "B", "C", "D", "E", "F", "G", "H", "I", "J", "K", "L", "M",
       "N", "O", "P", "Q", "R", "S", "T", "U", "V", "W", "X", "Y", "Z",
       "0", "1", "2", "3", "4", "5", "6", "7", "8", "9" >>

\* the schema of the script, in the order the dict is written
CodeSchema == << <<"id", "INTEGER">>, <<"name", "TEXT">>, <<"age", "INTEGER">> >>

\* type tags a schema may carry; REAL is a tag the generator does not know
Tags == {"INTEGER", "TEXT", "REAL"}

\* schemas with the script's column names and any tags
Schemas ==
    { << <<"id", t[1]>>, <<"name", t[2]>>, <<"age", t[3]>> >> : t \in [1..3 -> Tags] }

-----------------------------------------------------------------------------
(* Python values. *)

IntVal(n) == [int |-> n]

StrVal(s) == [str |-> s]

None == [null |-> TRUE]

IsInt(v) == DOMAIN v = {"int"}

IsStr(v) == DOMAIN v = {"str"}

-----------------------------------------------------------------------------
(* The random module.  The generator is deterministic once seeded; it is   *)
(* seeded from the operating system when the module is imported.  A seed   *)
(* is modelled by the stream of draws it produces: a cyclic pattern of     *)
(* levels, 0 the lowest possible draw, 1 a middle one, 2 the highest.      *)

Seeds == { <<0>>, <<2>>, <<0, 2>>, <<2, 1, 1, 0>> }

\* the level of the m-th next draw (m = 0 is the next one)
Level(r, m) == r.seed[((r.pos + m) % Len(r.seed)) + 1]

\* the generator after n draws
Advance(r, n) == [r EXCEPT !.pos = (@ + n) % Len(r.seed)]

\* a draw from 0..n-1
RandBelow(n, lvl) == CASE lvl = 0 -> 0
                       [] lvl = 1 -> n \div 2
                       [] OTHER   -> n - 1

\* variant of randint whose upper end is one too far
randint_wide(a, b, r) == a + RandBelow(b - a + 2, Level(r, 0))

\* random.randint(a, b): an integer in a..b, both ends included
randint(a, b, r) == a + RandBelow(b - a + 1, Level(r, 0))

\* variant of choices that draws one element too few
choices_short(population, k, r) ==
    [m \in 1..(k - 1) |-> population[RandBelow(Len(population), Level(r, m - 1)) + 1]]

\* random.choices(population, k=k): k draws with replacement
choices(population, k, r) ==
    [m \in 1..k |-> population[RandBelow(Len(population), Level(r, m - 1)) + 1]]

\* variant of Generate in which an unknown tag falls into the TEXT branch
Generate_fallthrough(v, r) ==
    IF v = "INTEGER"
    THEN [value |-> IntVal(randint(RandLo, RandHi, r)), draws |-> 1]
    ELSE [value |-> StrVal(choices(Alphabet, StrLen, r)), draws |-> StrLen]

\* lines 33-38: the value for a column of type tag v, and the draws it takes
Generate(v, r) ==
    IF v = "INTEGER"
    THEN [value |-> IntVal(randint(RandLo, RandHi, r)), draws |-> 1]
    ELSE IF v = "TEXT"
         THEN [value |-> StrVal(choices(Alphabet, StrLen, r)), draws |-> StrLen]
         ELSE [value |-> None, draws |-> 0]

-----------------------------------------------------------------------------
(* The statements the script builds. *)

\* variant of columns that lists the items in reverse order
columns_reversed(s) ==
    [j \in 1..Len(s) |-> [name |-> s[Len(s) + 1 - j][1], type |-> s[Len(s) + 1 - j][2]]]

\* line 25: one "name tag" definition per schema item, in dict order
columns(s) == [j \in 1..Len(s) |-> [name |-> s[j][1], type |-> s[j][2]]]

\* line 32: schema.values(), in dict order
values(s) == [j \in 1..Len(s) |-> s[j][2]]

\* line 40: one '?' per element of data
Placeholders(d) == [j \in 1..Len(d) |-> "?"]

-----------------------------------------------------------------------------
(* SQLite, as far as the script uses it.  A database is its catalogue      *)
(* (sqlite_master, one entry per table or index; cols are the column       *)
(* definitions of a table, the indexed column names of an index) and the   *)
(* rows of the table.  Each operator returns whether the statement         *)
(* succeeds and the database after it.                                     *)

EmptyDb == [master |-> << >>, rows |-> << >>]

Entries(d, type, name) ==
    { k \in 1..Len(d.master) : d.master[k].type = type /\ d.master[k].name = name }

Named(d, name) == { k \in 1..Len(d.master) : d.master[k].name = name }

HasTable(d) == Entries(d, "table", table_name) # {}

HasIndex(d) == Entries(d, "index", index_name) # {}

TableCols(d) == d.master[CHOOSE k \in Entries(d, "table", table_name) : TRUE].cols

\* variant: DROP TABLE IF EXISTS, then CREATE TABLE
CreateTable_DropFirst(d, name, cols) ==
    [ok |-> TRUE,
     db |-> [master |-> << [type |-> "table", name |-> name, tbl |-> name, cols |-> cols] >>,
             rows |-> << >>]]

\* variant: CREATE TABLE without IF NOT EXISTS
CreateTable_Plain(d, name, cols) ==
    IF Named(d, name) # {}
    THEN [ok |-> FALSE, db |-> d]
    ELSE [ok |-> TRUE,
          db |-> [d EXCEPT !.master =
                    Append(@, [type |-> "table", name |-> name,
                               tbl |-> name, cols |-> cols])]]

\* CREATE TABLE IF NOT EXISTS name (cols): nothing happens when the name is
\* taken by a table; a name taken by an index is an error
CreateTableIfNotExists(d, name, cols) ==
    IF Entries(d, "table", name) # {}
    THEN [ok |-> TRUE, db |-> d]
    ELSE IF Named(d, name) # {}
         THEN [ok |-> FALSE, db |-> d]
         ELSE [ok |-> TRUE,
               db |-> [d EXCEPT !.master =
                         Append(@, [type |-> "table", name |-> name,
                                    tbl |-> name, cols |-> cols])]]

\* CREATE INDEX IF NOT EXISTS name ON tbl (col): nothing happens when an index
\* of that name exists; otherwise the table and the column must exist
CreateIndexIfNotExists(d, name, tbl, col) ==
    IF Entries(d, "index", name) # {}
    THEN [ok |-> TRUE, db |-> d]
    ELSE IF \/ Named(d, name) # {}
            \/ Entries(d, "table", tbl) = {}
            \/ \A k \in Entries(d, "table", tbl) :
                  \A j \in 1..Len(d.master[k].cols) : d.master[k].cols[j].name # col
         THEN [ok |-> FALSE, db |-> d]
         ELSE [ok |-> TRUE,
               db |-> [d EXCEPT !.master =
                         Append(@, [type |-> "index", name |-> name,
                                    tbl |-> tbl, cols |-> << col >>])]]

\* INSERT INTO table VALUES (?, ..., ?) with the parameters d: the table must
\* exist, the statement must give one value per column of the table, and
\* one parameter must be bound per '?'.  The row joins the open transaction.
InsertValues(database, pending, marks, d) ==
    IF /\ HasTable(database)
       /\ Len(marks) = Len(TableCols(database))
       /\ Len(d) = Len(marks)
    THEN [ok |-> TRUE, txn |-> Append(pending, d)]
    ELSE [ok |-> FALSE, txn |-> pending]

\* COMMIT: the rows of the open transaction become durable, in order
CommitRows(database, pending) == [database EXCEPT !.rows = @ \o pending]

-----------------------------------------------------------------------------
(* The script, statement by statement. *)

\* a call to sqlite3 and how it ended: "ok", "error" (the statement is
\* rejected) or "io_error" (the storage fails)
Call(what, result) == [kind |-> "call", what |-> what, result |-> result]

Printed(text) == [kind |-> "print", what |-> text, result |-> "ok"]

\* variant of Raise: the exception is caught and the script reports success
Raise_swallowed(what, result) ==
    /\ pc' = "print_seeded"
    /\ trace' = Append(trace, Call(what, result))
    /\ conn' = conn
    /\ txn' = txn

\* an unhandled exception in the call `what`: the interpreter exits, the
\* connection goes away without a commit and its transaction is rolled back
Raise(what, result) ==
    /\ pc' = "failed"
    /\ trace' = Append(trace, Call(what, result))
    /\ conn' = IF conn = "open" THEN "dropped" ELSE conn
    /\ txn' = << >>

\* state of a process that has just started: lines 1-12
Fresh(seed) ==
    /\ rng = [seed |-> seed, pos |-> 0]
    /\ pc = "connect"
    /\ conn = "none"
    /\ txn = << >>
    /\ i = 0
    /\ data = << >>
    /\ placeholders = << >>
    /\ trace = << >>

Start ==
    /\ nrows \in 0..MaxRows
    /\ \E seed \in Seeds : Fresh(seed)
    /\ db = EmptyDb
    /\ pre = EmptyDb
    /\ runs = 1
    /\ completed = 0

Init == schema = CodeSchema /\ Start

InitAnySchema == schema \in Schemas /\ Start

\* line 16: conn = sqlite3.connect('./sample.db')
Connect ==
    /\ pc = "connect"
    /\ conn' = "open"
    /\ trace' = Append(trace, Call("connect", "ok"))
    /\ pc' = "print_opened"
    /\ UNCHANGED <<schema, nrows, rng, txn, i, data, placeholders, db, runs,
                   completed, pre>>

\* line 18: print("Opened database successfully")
PrintOpened ==
    /\ pc = "print_opened"
    /\ trace' = Append(trace, Printed("Opened database successfully"))
    /\ pc' = "cursor"
    /\ UNCHANGED <<schema, nrows, rng, conn, txn, i, data, placeholders, db,
                   runs, completed, pre>>

\* line 21: c = conn.cursor()
Cursor ==
    /\ pc = "cursor"
    /\ trace' = Append(trace, Call("cursor", "ok"))
    /\ pc' = "create_table"
    /\ UNCHANGED <<schema, nrows, rng, conn, txn, i, data, placeholders, db,
                   runs, completed, pre>>

\* lines 24-26: CREATE TABLE IF NOT EXISTS RandomData (columns).  No
\* transaction is open, so the statement is durable as soon as it returns.
CreateTable ==
    /\ pc = "create_table"
    /\ LET r == CreateTableIfNotExists(db, table_name, columns(schema))
       IN  IF r.ok
           THEN /\ db' = r.db
                /\ trace' = Append(trace, Call("create_table", "ok"))
                /\ pc' = "create_index"
                /\ UNCHANGED <<conn, txn>>
           ELSE Raise("create_table", "error") /\ UNCHANGED db
    /\ UNCHANGED <<schema, nrows, rng, i, data, placeholders, runs, completed, pre>>

\* line 27: CREATE INDEX IF NOT EXISTS idx_RandomData_name ON RandomData (name)
CreateIndex ==
    /\ pc = "create_index"
    /\ LET r == CreateIndexIfNotExists(db, index_name, table_name, "name")
       IN  IF r.ok
           THEN /\ db' = r.db
                /\ trace' = Append(trace, Call("create_index", "ok"))
                /\ pc' = "loop"
                /\ UNCHANGED <<conn, txn>>
           ELSE Raise("create_index", "error") /\ UNCHANGED db
    /\ UNCHANGED <<schema, nrows, rng, i, data, placeholders, runs, completed, pre>>

\* lines 30-31: the loop takes its next element; data = []
LoopRow ==
    /\ pc = "loop"
    /\ i < nrows
    /\ i' = i + 1
    /\ data' = << >>
    /\ pc' = "gen"
    /\ UNCHANGED <<schema, nrows, rng, conn, txn, placeholders, db, trace,
                   runs, completed, pre>>

\* variant of LoopExit: the loop stops one row early
LoopExit_OneShort ==
    /\ pc = "loop"
    /\ i >= nrows - 1
    /\ pc' = "commit"
    /\ UNCHANGED <<schema, nrows, rng, conn, txn, i, data, placeholders, db,
                   trace, runs, completed, pre>>

\* variant of LoopExit: the script closes without committing
LoopExit_NoCommit ==
    /\ pc = "loop"
    /\ i = nrows
    /\ pc' = "close"
    /\ UNCHANGED <<schema, nrows, rng, conn, txn, i, data, placeholders, db,
                   trace, runs, completed, pre>>

\* line 30: range(nrows) is exhausted
LoopExit ==
    /\ pc = "loop"
    /\ i = nrows
    /\ pc' = "commit"
    /\ UNCHANGED <<schema, nrows, rng, conn, txn, i, data, placeholders, db,
                   trace, runs, completed, pre>>

\* lines 32-38: the value of the next column is appended to data
GenValue ==
    /\ pc = "gen"
    /\ Len(data) < Len(values(schema))
    /\ LET g == Generate(values(schema)[Len(data) + 1], rng)
       IN  /\ data' = Append(data, g.value)
           /\ rng' = Advance(rng, g.draws)
    /\ UNCHANGED <<schema, nrows, pc, conn, txn, i, placeholders, db, trace,
                   runs, completed, pre>>

\* variant of Insert on a connection in autocommit mode: every row is
\* durable as soon as it is inserted
Insert_Autocommit ==
    /\ pc = "gen"
    /\ Len(data) = Len(values(schema))
    /\ placeholders' = Placeholders(data)
    /\ LET r == InsertValues(db, txn, placeholders', data)
       IN  IF r.ok
           THEN /\ db' = CommitRows(db, r.txn)
                /\ txn' = << >>
                /\ trace' = Append(trace, Call("insert", "ok"))
                /\ pc' = "loop"
                /\ UNCHANGED conn
           ELSE Raise("insert", "error") /\ UNCHANGED db
    /\ UNCHANGED <<schema, nrows, rng, i, data, runs, completed, pre>>

\* lines 40-41: INSERT INTO RandomData VALUES (placeholders), data.  The
\* first insert opens the connection's transaction.
Insert ==
    /\ pc = "gen"
    /\ Len(data) = Len(values(schema))
    /\ placeholders' = Placeholders(data)
    /\ LET r == InsertValues(db, txn, placeholders', data)
       IN  IF r.ok
           THEN /\ txn' = r.txn
                /\ trace' = Append(trace, Call("insert", "ok"))
                /\ pc' = "loop"
                /\ UNCHANGED conn
           ELSE Raise("insert", "error")
    /\ UNCHANGED <<schema, nrows, rng, i, data, db, runs, completed, pre>>

\* line 44: conn.commit()
Commit ==
    /\ pc = "commit"
    /\ db' = CommitRows(db, txn)
    /\ txn' = << >>
    /\ trace' = Append(trace, Call("commit", "ok"))
    /\ pc' = "close"
    /\ UNCHANGED <<schema, nrows, rng, conn, i, data, placeholders, runs,
                   completed, pre>>

\* line 45: conn.close(); a transaction still open would be rolled back
Close ==
    /\ pc = "close"
    /\ conn' = "closed"
    /\ txn' = << >>
    /\ trace' = Append(trace, Call("close", "ok"))
    /\ pc' = "print_seeded"
    /\ UNCHANGED <<schema, nrows, rng, i, data, placeholders, db, runs,
                   completed, pre>>

\* line 47: print("Seeded database successfully"); the script ends
PrintSeeded ==
    /\ pc = "print_seeded"
    /\ trace' = Append(trace, Printed("Seeded database successfully"))
    /\ pc' = "done"
    /\ completed' = completed + 1
    /\ UNCHANGED <<schema, nrows, rng, conn, txn, i, data, placeholders, db,
                   runs, pre>>

\* the call the script is about to make to sqlite3, if any
NextCall ==
    CASE pc = "connect"      -> "connect"
      [] pc = "create_table" -> "create_table"
      [] pc = "create_index" -> "create_index"
      [] pc = "gen" /\ Len(data) = Len(values(schema)) -> "insert"
      [] pc = "commit"       -> "commit"
      [] pc = "close"        -> "close"
      [] OTHER               -> "none"

\* the storage cannot be opened, or a statement fails for a reason outside
\* the script (I/O error, full disk, locked file): nothing is caught, the
\* exception ends the process
StatementFails ==
    /\ NextCall # "none"
    /\ Raise(NextCall, "io_error")
    /\ UNCHANGED <<schema, nrows, rng, i, data, placeholders, db, runs,
                   completed, pre>>

Running == pc \notin {"done", "failed", "killed"}

\* the process is interrupted or the machine stops: what was not committed
\* is rolled back when the file is next opened
Interrupt ==
    /\ Running
    /\ pc' = "killed"
    /\ conn' = IF conn = "open" THEN "dropped" ELSE conn
    /\ txn' = << >>
    /\ UNCHANGED <<schema, nrows, rng, i, data, placeholders, db, trace,
                   runs, completed, pre>>

\* the script is started again against the same file: lines 1-12
Rerun ==
    /\ ~Running
    /\ runs < MaxRuns
    /\ runs' = runs + 1
    /\ pre' = db
    /\ \E seed \in Seeds : rng' = [seed |-> seed, pos |-> 0]
    /\ pc' = "connect"
    /\ conn' = "none"
    /\ txn' = << >>
    /\ i' = 0
    /\ data' = << >>
    /\ placeholders' = << >>
    /\ trace' = << >>
    /\ UNCHANGED <<schema, nrows, db, completed>>

Next ==
    \/ Connect
    \/ PrintOpened
    \/ Cursor
    \/ CreateTable
    \/ CreateIndex
    \/ LoopRow
    \/ LoopExit
    \/ GenValue
    \/ Insert
    \/ Commit
    \/ Close
    \/ PrintSeeded
    \/ StatementFails
    \/ Interrupt
    \/ Rerun

Spec == Init /\ [][Next]_vars

SpecAnySchema == InitAnySchema /\ [][Next]_vars

-----------------------------------------------------------------------------
(* Vocabulary of the properties. *)

IsPrefix(a, b) == Len(a) <= Len(b) /\ SubSeq(b, 1, Len(a)) = a

Range(f) == { f[k] : k \in DOMAIN f }

\* positions of the calls `what` in the trace, and of those that succeeded
Calls(what) ==
    { k \in 1..Len(trace) : trace[k].kind = "call" /\ trace[k].what = what }

OkCalls(what) == { k \in Calls(what) : trace[k].result = "ok" }

\* positions of the statements executed on the connection
Statements ==
    Calls("cursor") \cup Calls("create_table") \cup Calls("create_index")
        \cup Calls("insert") \cup Calls("commit")

Prints(text) == { k \in 1..Len(trace) : trace[k] = Printed(text) }

\* rows inserted so far, durable or not
Inserted == Range(db.rows) \cup Range(txn)

\* rows and partial rows generated so far
Generated == Inserted \cup {data}

\* the commit of the current run has happened
Committed == OkCalls("commit") # {}

UpperAndDigits ==
    { "A", "B", "C", "D", "E", "F", "G", "H", "I", "J", "K", "L", "M",
      "N", "O", "P", "Q", "R", "S", "T", "U", "V", "W", "X", "Y", "Z",
      "0", "1", "2", "3", "4", "5", "6", "7", "8", "9" }

-----------------------------------------------------------------------------
\* C1: a run that completes leaves the table with exactly nrows more
\* committed rows than it had before the run; with nrows = 0 the table
\* exists afterwards and its rows are those it had before.
C1_CompletedRunAddsN ==
    pc = "done" =>
        /\ HasTable(db)
        /\ Len(db.rows) = Len(pre.rows) + nrows
        /\ (nrows = 0 => db.rows = pre.rows)

C1_Witness ==
    /\ pc = "done"
    /\ nrows > 0
    /\ ~HasTable(pre)
    /\ Len(db.rows) = nrows

\* C2: until the commit of the run has happened the committed rows are those
\* of before the run, however the run ends; the committed row count is the
\* count before the run or that count plus nrows, never a value in between.
C2_NothingDurableBeforeCommit ==
    /\ ~Committed => db.rows = pre.rows
    /\ Len(db.rows) \in {Len(pre.rows), Len(pre.rows) + nrows}

C2_Witness ==
    /\ pc \in {"failed", "killed"}
    /\ ~Committed
    /\ Calls("insert") # {}
    /\ i < nrows
    /\ db.rows = pre.rows

\* C3: the rows committed before a run are still there, unchanged and in
\* place; there is one table definition; when every run so far completed,
\* the table holds runs * nrows rows.
C3_StrictAppend ==
    /\ IsPrefix(pre.rows, db.rows)
    /\ Cardinality(Named(db, table_name)) <= 1
    /\ (pc = "done" /\ completed = runs => Len(db.rows) = runs * nrows)

C3_Witness ==
    /\ pc = "done"
    /\ runs > 1
    /\ completed = runs
    /\ nrows > 0
    /\ Len(pre.rows) > 0
    /\ Len(db.rows) > Len(pre.rows)

\* C4: when the table and the index exist, the two statements of the Ensure
\* Table step, once the engine executes them, succeed and leave the
\* catalogue and the rows as they are; executing the step a second time
\* right after the first changes nothing more.
EnsureTable(d) ==
    CreateIndexIfNotExists(CreateTableIfNotExists(d, table_name, columns(schema)).db,
                           index_name, table_name, "name").db

C4_EnsureStep ==
    /\ pc \in {"create_table", "create_index"}
    /\ HasTable(db)
    /\ HasIndex(db)
    /\ pc' # "killed"
    /\ trace'[Len(trace')].result # "io_error"
    => /\ trace'[Len(trace')].result = "ok"
       /\ db' = db

C4_EnsureTableIdempotent ==
    /\ [][C4_EnsureStep]_vars
    /\ [](EnsureTable(EnsureTable(db)) = EnsureTable(db))
    /\ [](Cardinality(Named(db, table_name)) <= 1 /\ Cardinality(Named(db, index_name)) <= 1)
    /\ [](HasTable(db) => TableCols(db) = columns(schema))

C4_Witness ==
    /\ pc = "loop"
    /\ runs > 1
    /\ HasTable(pre)
    /\ HasIndex(pre)
    /\ Len(pre.rows) > 0
    /\ db = pre

\* C5: every value generated for the columns id and age (the INTEGER
\* columns) is an integer from 10 to 100, both included.
C5_IntegersInRange ==
    \A r \in Generated :
        \A j \in 1..Len(r) :
            schema[j][2] = "INTEGER" =>
                IsInt(r[j]) /\ r[j].int \in Int /\ 10 <= r[j].int /\ r[j].int <= 100

C5_Witness ==
    /\ schema[1] = <<"id", "INTEGER">>
    /\ schema[3] = <<"age", "INTEGER">>
    /\ \E r \in Range(db.rows) : r[1] = IntVal(10)
    /\ \E r \in Range(db.rows) : r[1] = IntVal(100)
    /\ \E r \in Range(db.rows) : IsInt(r[3]) /\ r[3].int \notin {10, 100}

\* C6: every value generated for the column name (the TEXT column) is a
\* string of exactly 5 characters, each of them one of A-Z, 0-9.
C6_TextIsFiveUpperOrDigits ==
    \A r \in Generated :
        \A j \in 1..Len(r) :
            schema[j][2] = "TEXT" =>
                /\ IsStr(r[j])
                /\ Len(r[j].str) = 5
                /\ \A m \in 1..Len(r[j].str) : r[j].str[m] \in UpperAndDigits

C6_Witness ==
    /\ schema[2] = <<"name", "TEXT">>
    /\ \E r \in Range(db.rows) :
          /\ IsStr(r[2])
          /\ r[2].str[1] = r[2].str[2]
          /\ {"A", "9"} \subseteq Range(r[2].str)

\* C7: in every run the connection is opened once and first; the table and
\* the index are ensured before the first insert; the commit comes after
\* exactly nrows inserts and there is one commit; the close comes once and
\* after the commit; nothing is called after the close; a run that completes
\* has opened, committed and closed exactly once.
C7_Lifecycle ==
    /\ Cardinality(Calls("connect")) <= 1
    /\ trace # << >> => trace[1] = Call("connect", trace[1].result)
    /\ \A k \in Statements \cup Calls("close") : conn # "none" /\ 1 \in OkCalls("connect")
    /\ \A k \in Calls("insert") :
          \E a \in OkCalls("create_table"), b \in OkCalls("create_index") : a < b /\ b < k
    /\ Cardinality(Calls("commit")) <= 1
    /\ \A k \in Calls("commit") :
          /\ Cardinality({ j \in OkCalls("insert") : j < k }) = nrows
          /\ \A j \in Calls("insert") : j < k
    /\ Cardinality(Calls("close")) <= 1
    /\ \A k \in Calls("close") : \E j \in OkCalls("commit") : j < k
    /\ \A k \in OkCalls("close") :
          \A j \in 1..Len(trace) : trace[j].kind = "call" => j <= k
    /\ conn = "closed" <=> OkCalls("close") # {}
    /\ pc = "done" =>
          /\ Cardinality(OkCalls("connect")) = 1
          /\ Cardinality(OkCalls("commit")) = 1
          /\ Cardinality(OkCalls("close")) = 1
          /\ Cardinality(OkCalls("insert")) = nrows

C7_Witness ==
    /\ pc = "done"
    /\ nrows > 1
    /\ conn = "closed"
    /\ Cardinality(OkCalls("insert")) = nrows
    /\ OkCalls("commit") # {}

\* C8: a column whose type tag is neither INTEGER nor TEXT gets a null in
\* every row; no statement is rejected because of it; every inserted row
\* has one value per column; a run that completes has added nrows rows.
C8_UnknownTagIsNull ==
    /\ \A r \in Generated :
          \A j \in 1..Len(r) :
              schema[j][2] \notin {"INTEGER", "TEXT"} => DOMAIN r[j] = {"null"}
    /\ \A r \in Inserted : Len(r) = Len(schema)
    /\ \A k \in 1..Len(trace) : trace[k].result # "error"
    /\ pc = "done" => Len(db.rows) = Len(pre.rows) + nrows

C8_Witness ==
    /\ pc = "done"
    /\ nrows > 0
    /\ schema[2][2] = "REAL"
    /\ schema[3][2] = "INTEGER"
    /\ \A r \in Range(db.rows) : r[2] = None /\ IsInt(r[3])
    /\ Len(db.rows) = runs * nrows
    /\ runs > 1

\* C9: the table's columns are id INTEGER, name TEXT, age INTEGER in this
\* order; every inserted row has three values, an integer, a 5-character
\* string and an integer in this order; the insert statement has as many
\* placeholders as the table has columns.
C9_SchemaLockStep ==
    /\ HasTable(db) =>
          TableCols(db) = << [name |-> "id", type |-> "INTEGER"],
                             [name |-> "name", type |-> "TEXT"],
                             [name |-> "age", type |-> "INTEGER"] >>
    /\ \A r \in Inserted :
          /\ Len(r) = 3
          /\ IsInt(r[1])
          /\ IsStr(r[2]) /\ Len(r[2].str) = 5
          /\ IsInt(r[3])
    /\ \A j \in 1..Len(data) :
          IF schema[j][2] = "TEXT" THEN IsStr(data[j]) ELSE IsInt(data[j])
    /\ placeholders # << >> =>
          /\ Len(placeholders) = 3
          /\ HasTable(db) /\ Len(placeholders) = Len(TableCols(db))

C9_Witness ==
    /\ pc = "loop"
    /\ Len(txn) = 2
    /\ Len(placeholders) = 3
    /\ HasTable(db)
    /\ Len(db.rows) > 0

\* C10: "Opened database successfully" is printed right after the open and
\* before any statement; "Seeded database successfully" is printed only
\* after the commit and then the close succeeded; a call that fails is the
\* last thing the run does, and such a run never prints
\* "Seeded database successfully".
C10_ConsoleOrder ==
    /\ \A k \in Prints("Opened database successfully") :
          /\ 1 \in OkCalls("connect")
          /\ \A j \in Statements : k < j
    /\ \A j \in Statements : Prints("Opened database successfully") # {}
    /\ \A k \in Prints("Seeded database successfully") :
          \E a \in OkCalls("commit"), b \in OkCalls("close") : a < b /\ b < k
    /\ \A k \in 1..Len(trace) :
          trace[k].result # "ok" => k = Len(trace) /\ pc = "failed"
    /\ pc = "failed" =>
          /\ trace # << >>
          /\ trace[Len(trace)].result # "ok"
          /\ Prints("Seeded database successfully") = {}
    /\ pc = "done" <=> Prints("Seeded database successfully") # {}

C10_Witness ==
    /\ pc = "failed"
    /\ Len(trace) > 1
    /\ trace[Len(trace)] = Call("insert", "io_error")
    /\ Prints("Opened database successfully") = {2}
    /\ Len(txn) = 0

====
